---------------------------- MODULE Spec2Model ----------------------------
(***************************************************************************)
(* Model of custom_components/zha_toolkit/utils.py: the scalar parser      *)
(* (str2int, str2bool), the endpoint and cluster resolvers (find_endpoint, *)
(* get_cluster_from_params), the attribute encoder (attr_encode) and the   *)
(* parameter normalizer (extractParams).                                   *)
(*                                                                         *)
(* Python values are records of one shape, [t, b, s, n, xs]: t is the type, *)
(* b a bool's value or an int's sign, s a string's characters, n an int's  *)
(* magnitude or the bytes of a byte string, xs the items of a list.        *)
(* Integers are unbounded in Python and widths up to 64 bits matter in     *)
(* attr_encode, so a magnitude is kept as a little-endian sequence of      *)
(* hexadecimal digits without leading zeros.  An exception leaving a       *)
(* function is the value of type "raise".                                  *)
(***************************************************************************)
EXTENDS Integers, Sequences, FiniteSets, TLC

VARIABLES
    op,          \* the function called last ("none" before the first call)
    arg,         \* the arguments of the call (a record, per function)
    ret,         \* what the call returned, or the exception it raised
    endpoints,   \* dev.endpoints: endpoint id -> [in_clusters, out_clusters]
    params,      \* the ParameterSet handed to get_cluster_from_params
    event_data   \* event_data: [has_warnings, warnings]

vars == <<op, arg, ret, endpoints, params, event_data>>

---------------------------------------------------------------------------
(* Bounds of the model.                                                    *)

MaxTokLen == 3
MaxEp == 2
MaxResolveEp == 1
MaxRawFields == 1

---------------------------------------------------------------------------
(* What the variables hold where a function takes no device, parameter set *)
(* or event data.                                                          *)

NoDevice == <<>>
NoParams == <<>>
NoEvents == <<>>

---------------------------------------------------------------------------
(* Python values.                                                          *)

Val(t, b, s, n, xs) == [t |-> t, b |-> b, s |-> s, n |-> n, xs |-> xs]

PyNone == Val("none", FALSE, <<>>, <<>>, <<>>)
PyStr(chars) == Val("str", FALSE, chars, <<>>, <<>>)
PyBool(b) == Val("bool", b, <<>>, <<>>, <<>>)
PyBytes(bs) == Val("bytes", FALSE, <<>>, bs, <<>>)
PyList(xs) == Val("list", FALSE, <<>>, <<>>, xs)
BigInt(neg, mag) == Val("int", neg, <<>>, mag, <<>>)
\* an exception of the given class whose message names the values in `named`
Raise(kind, named) == Val("raise", FALSE, <<kind>>, <<>>, named)

RECURSIVE NatDigits(_)
NatDigits(n) == IF n = 0 THEN <<>> ELSE <<n % 16>> \o NatDigits(n \div 16)

PyInt(n) == IF n < 0 THEN BigInt(TRUE, NatDigits(-n)) ELSE BigInt(FALSE, NatDigits(n))

IsType(x, ty) == x.t = ty
IsRaise(x) == x.t = "raise"

\* isinstance(x, int): bool is a subclass of int
IsInstanceInt(x) == x.t \in {"int", "bool"}

\* The integer a bool or int stands for in arithmetic and comparison.
AsInt(x) == IF x.t = "bool" THEN (IF x.b THEN PyInt(1) ELSE PyInt(0)) ELSE x

\* Python ==: numbers compare by value across int and bool, everything else
\* by type and payload.
PyEq(a, b) ==
    IF IsInstanceInt(a) /\ IsInstanceInt(b) THEN AsInt(a) = AsInt(b)
    ELSE a = b

---------------------------------------------------------------------------
(* Characters and int(s, base).                                            *)

Digits == {"0", "1", "2", "3", "4", "5", "6", "7", "8", "9"}
HexLower == {"a", "b", "c", "d", "e", "f"}
HexUpper == {"A", "B", "C", "D", "E", "F"}

UpperToLower ==
    [c \in {"A", "B", "C", "D", "E", "F", "L", "R", "S", "T", "U", "X", "N", "M"} |->
        CASE c = "A" -> "a" [] c = "B" -> "b" [] c = "C" -> "c" [] c = "D" -> "d"
          [] c = "E" -> "e" [] c = "F" -> "f" [] c = "L" -> "l" [] c = "R" -> "r"
          [] c = "S" -> "s" [] c = "T" -> "t" [] c = "U" -> "u" [] c = "X" -> "x"
          [] c = "N" -> "n" [] c = "M" -> "m"]

LowerChar(c) == IF c \in DOMAIN UpperToLower THEN UpperToLower[c] ELSE c

\* str.lower()
lower(s) == [i \in 1..Len(s) |-> LowerChar(s[i])]

DigitVal(c) ==
    CASE c = "0" -> 0 [] c = "1" -> 1 [] c = "2" -> 2 [] c = "3" -> 3
      [] c = "4" -> 4 [] c = "5" -> 5 [] c = "6" -> 6 [] c = "7" -> 7
      [] c = "8" -> 8 [] c = "9" -> 9
      [] c \in {"a", "A"} -> 10 [] c \in {"b", "B"} -> 11
      [] c \in {"c", "C"} -> 12 [] c \in {"d", "D"} -> 13
      [] c \in {"e", "E"} -> 14 [] c \in {"f", "F"} -> 15
      [] OTHER -> 99

\* str.isnumeric() on the characters of the model: non-empty, digits only
isnumeric(s) == Len(s) > 0 /\ \A i \in 1..Len(s) : s[i] \in Digits

\* str.startswith(prefix)
startswith(s, prefix) ==
    Len(s) >= Len(prefix) /\ SubSeq(s, 1, Len(prefix)) = prefix

RECURSIVE MulAdd(_, _, _)
\* mag * m + carry on little-endian hexadecimal digits
MulAdd(mag, m, carry) ==
    IF mag = <<>> THEN NatDigits(carry)
    ELSE LET x == mag[1] * m + carry
         IN  <<x % 16>> \o MulAdd(Tail(mag), m, x \div 16)

RECURSIVE Normalize(_)
Normalize(mag) ==
    IF mag = <<>> THEN <<>>
    ELSE IF mag[Len(mag)] = 0 THEN Normalize(SubSeq(mag, 1, Len(mag) - 1))
    ELSE mag

RECURSIVE DigitsValue(_, _, _)
\* the magnitude of the digit string s in the base, most significant first
DigitsValue(s, base, acc) ==
    IF s = <<>> THEN Normalize(acc)
    ELSE DigitsValue(Tail(s), base, MulAdd(acc, base, DigitVal(s[1])))

ValidDigits(s, base) ==
    Len(s) > 0 /\ \A i \in 1..Len(s) : DigitVal(s[i]) < base

\* int(s, base) for a str s: an optional sign, for base 16 an optional 0x/0X
\* prefix, then at least one digit of the base; anything else is a ValueError.
int_str(s, base) ==
    LET neg  == Len(s) > 0 /\ s[1] = "-"
        s1   == IF Len(s) > 0 /\ s[1] \in {"-", "+"} THEN Tail(s) ELSE s
        s2   == IF base = 16 /\ (startswith(s1, <<"0", "x">>) \/ startswith(s1, <<"0", "X">>))
                THEN SubSeq(s1, 3, Len(s1)) ELSE s1
    IN  IF ValidDigits(s2, base)
        THEN LET mag == DigitsValue(s2, base, <<>>)
             IN  BigInt(neg /\ mag # <<>>, mag)
        ELSE Raise("ValueError", <<>>)

---------------------------------------------------------------------------
(* str2int and str2bool.                                                   *)

\* str2int with the leading-zero rule reading the token in base 10
str2int_LeadingZeroDecimal(s) ==
    IF ~IsType(s, "str") THEN s
    ELSE IF lower(s.s) = <<"f", "a", "l", "s", "e">> THEN PyInt(0)
    ELSE IF lower(s.s) = <<"t", "r", "u", "e">> THEN PyInt(1)
    ELSE IF startswith(s.s, <<"0", "x">>) \/ startswith(s.s, <<"0", "X">>)
         THEN int_str(s.s, 16)
    ELSE IF startswith(s.s, <<"b">>) /\ isnumeric(Tail(s.s)) THEN int_str(Tail(s.s), 2)
    ELSE IF isnumeric(s.s) THEN int_str(s.s, 10)
    ELSE s

\* Convert string to int if possible or return original string
str2int(s) ==
    IF ~IsType(s, "str") THEN s
    ELSE IF lower(s.s) = <<"f", "a", "l", "s", "e">> THEN PyInt(0)
    ELSE IF lower(s.s) = <<"t", "r", "u", "e">> THEN PyInt(1)
    ELSE IF startswith(s.s, <<"0", "x">>) \/ startswith(s.s, <<"0", "X">>)
         THEN int_str(s.s, 16)
    ELSE IF startswith(s.s, <<"0">>) /\ isnumeric(s.s) THEN int_str(s.s, 8)
    ELSE IF startswith(s.s, <<"b">>) /\ isnumeric(Tail(s.s)) THEN int_str(Tail(s.s), 2)
    ELSE IF isnumeric(s.s) THEN int_str(s.s, 10)
    ELSE s


\* Convert string to best boolean representation
str2bool(s) ==
    IF s = PyNone \/ s = PyStr(<<>>) THEN PyBool(FALSE)
    ELSE IF IsType(s, "bool") THEN s
    ELSE LET n == str2int(s)
         IN  IF IsRaise(n) THEN n ELSE PyBool(~PyEq(n, PyInt(0)))

---------------------------------------------------------------------------
(* find_endpoint.  dev.endpoints maps an endpoint id to its input and      *)
(* output clusters; both cluster mappings are keyed by cluster id.         *)

\* key in d, for a dict d keyed by the integers in `keys`
InKeys(key, keys) == IsInstanceInt(key) /\ \E k \in keys : PyEq(key, PyInt(k))

\* the integer key of `keys` equal to `key`
KeyOf(key, keys) == CHOOSE k \in keys : PyEq(key, PyInt(k))

RECURSIVE SortedSeq(_)
SortedSeq(S) ==
    IF S = {} THEN <<>>
    ELSE LET m == CHOOSE x \in S : \A y \in S : x <= y
         IN  <<m>> \o SortedSeq(S \ {m})

RECURSIVE CountInClusters(_, _, _, _)
\* one pass of "for key, value in dev.endpoints.items()" over in_clusters,
\* carrying (endpoint_id, cnt)
CountInClusters(keys, eps, cluster_id, acc) ==
    IF keys = <<>> THEN acc
    ELSE LET key == keys[1]
             nxt == IF key = 0 THEN acc
                    ELSE IF InKeys(cluster_id, eps[key].in_clusters)
                         THEN [endpoint_id |-> PyInt(key), cnt |-> acc.cnt + 1]
                         ELSE acc
         IN  CountInClusters(Tail(keys), eps, cluster_id, nxt)

RECURSIVE CountOutClusters(_, _, _, _)
\* the same pass over out_clusters (what the second scan's log message names)
CountOutClusters(keys, eps, cluster_id, acc) ==
    IF keys = <<>> THEN acc
    ELSE LET key == keys[1]
             nxt == IF key = 0 THEN acc
                    ELSE IF InKeys(cluster_id, eps[key].out_clusters)
                         THEN [endpoint_id |-> PyInt(key), cnt |-> acc.cnt + 1]
                         ELSE acc
         IN  CountOutClusters(Tail(keys), eps, cluster_id, nxt)

\* find_endpoint counting an endpoint once for each of its two cluster sets
find_endpoint_CountsBothSets(eps, cluster_id) ==
    LET keys   == SortedSeq(DOMAIN eps)
        first  == CountInClusters(keys, eps, cluster_id, [endpoint_id |-> PyNone, cnt |-> 0])
        both   == CountOutClusters(keys, eps, cluster_id, first)
    IN  IF both.cnt > 1 THEN PyNone ELSE both.endpoint_id

\* Find endpoint matching in_cluster
find_endpoint(eps, cluster_id) ==
    LET keys   == SortedSeq(DOMAIN eps)
        first  == CountInClusters(keys, eps, cluster_id, [endpoint_id |-> PyNone, cnt |-> 0])
        second == IF first.cnt = 0
                  THEN CountInClusters(keys, eps, cluster_id, first)
                  ELSE first
    IN  IF second.cnt > 1 THEN PyNone ELSE second.endpoint_id

---------------------------------------------------------------------------
(* Devices of the model.                                                   *)

\* the clusters a device of the model can carry: On/Off 0x0006, Metering 0x0702
DevClusters == {6, 1794}

EndpointValues == [in_clusters : SUBSET DevClusters, out_clusters : SUBSET DevClusters]

\* every endpoint table with endpoint ids among 0..n
Tables(n) == UNION {[ids -> EndpointValues] : ids \in SUBSET (0..n)}

ClusterArgs == {PyInt(6), PyInt(1794), PyStr(<<"n", "a", "m", "e">>)}

InitFind ==
    /\ op = "none"
    /\ endpoints \in Tables(MaxEp)
    /\ arg \in [cluster_id : ClusterArgs]
    /\ ret = PyNone
    /\ params = NoParams
    /\ event_data = NoEvents

FindEndpointCall ==
    /\ op = "none"
    /\ op' = "find_endpoint"
    /\ ret' = find_endpoint(endpoints, arg.cluster_id)
    /\ UNCHANGED <<arg, endpoints, params, event_data>>

NextFind == FindEndpointCall

SpecFind == InitFind /\ [][NextFind]_vars

\* the non-zero endpoint ids whose input / output clusters hold the cluster
InputMatches(eps, cid) == {k \in DOMAIN eps : k # 0 /\ cid \in eps[k].in_clusters}
OutputMatches(eps, cid) == {k \in DOMAIN eps : k # 0 /\ cid \in eps[k].out_clusters}

\* C1: when some non-zero endpoint lists the cluster as input, find_endpoint
\* returns that endpoint's id if it is the only one and None if there are two
\* or more; endpoint 0 is never counted nor returned, and the output-cluster
\* sets play no part.
C1_InputMatchDecides ==
    op = "find_endpoint" =>
        \A c \in DevClusters :
            (arg.cluster_id = PyInt(c) /\ InputMatches(endpoints, c) # {}) =>
                /\ Cardinality(InputMatches(endpoints, c)) = 1 =>
                       \E k \in InputMatches(endpoints, c) : ret = PyInt(k)
                /\ Cardinality(InputMatches(endpoints, c)) >= 2 => ret = PyNone
                /\ ret # PyInt(0)

\* C1 witness: endpoint 0 and endpoint 2 both list the cluster as input,
\* endpoint 1 lists it as output only, and endpoint 2 has been returned.
C1_Witness ==
    /\ op = "find_endpoint" /\ arg.cluster_id = PyInt(6)
    /\ DOMAIN endpoints = {0, 1, 2}
    /\ 6 \in endpoints[0].in_clusters
    /\ 6 \in endpoints[1].out_clusters
    /\ InputMatches(endpoints, 6) = {2}
    /\ ret = PyInt(2)

\* C2 (as claimed): when no non-zero endpoint lists the cluster as input, the
\* count of non-zero endpoints listing it as OUTPUT decides: exactly one gives
\* that endpoint id, none or several give None.
C2_OutputFallback ==
    op = "find_endpoint" =>
        \A c \in DevClusters :
            (arg.cluster_id = PyInt(c) /\ InputMatches(endpoints, c) = {}) =>
                /\ Cardinality(OutputMatches(endpoints, c)) = 1 =>
                       \E k \in OutputMatches(endpoints, c) : ret = PyInt(k)
                /\ Cardinality(OutputMatches(endpoints, c)) # 1 => ret = PyNone

---------------------------------------------------------------------------
(* The ParameterSet: the table extractParams starts from.                  *)

PyTrue == PyBool(TRUE)
PyFalse == PyBool(FALSE)

\* the default table with the fail-exception flag left None like the event names
DefaultParams_FailExceptionNone ==
    [ CMD_ID |-> PyNone, EP_ID |-> PyNone, CLUSTER_ID |-> PyNone,
      ATTR_ID |-> PyNone, ATTR_TYPE |-> PyNone, ATTR_VAL |-> PyNone,
      CODE |-> PyNone, MIN_INTERVAL |-> PyNone, MAX_INTERVAL |-> PyNone,
      REPORTABLE_CHANGE |-> PyNone, DIR |-> PyInt(0), MANF |-> PyNone,
      TRIES |-> PyInt(1), EXPECT_REPLY |-> PyTrue, ARGS |-> PyList(<<>>),
      STATE_ID |-> PyNone, STATE_ATTR |-> PyNone, ALLOW_CREATE |-> PyFalse,
      EVT_SUCCESS |-> PyNone, EVT_FAIL |-> PyNone, EVT_DONE |-> PyNone,
      FAIL_EXCEPTION |-> PyNone, READ_BEFORE_WRITE |-> PyTrue,
      READ_AFTER_WRITE |-> PyTrue, WRITE_IF_EQUAL |-> PyFalse,
      CSV_FILE |-> PyNone, CSV_LABEL |-> PyNone ]

\* Potential parameters, initialized to None
DefaultParams ==
    [ CMD_ID |-> PyNone, EP_ID |-> PyNone, CLUSTER_ID |-> PyNone,
      ATTR_ID |-> PyNone, ATTR_TYPE |-> PyNone, ATTR_VAL |-> PyNone,
      CODE |-> PyNone, MIN_INTERVAL |-> PyNone, MAX_INTERVAL |-> PyNone,
      REPORTABLE_CHANGE |-> PyNone, DIR |-> PyInt(0), MANF |-> PyNone,
      TRIES |-> PyInt(1), EXPECT_REPLY |-> PyTrue, ARGS |-> PyList(<<>>),
      STATE_ID |-> PyNone, STATE_ATTR |-> PyNone, ALLOW_CREATE |-> PyFalse,
      EVT_SUCCESS |-> PyNone, EVT_FAIL |-> PyNone, EVT_DONE |-> PyNone,
      FAIL_EXCEPTION |-> PyFalse, READ_BEFORE_WRITE |-> PyTrue,
      READ_AFTER_WRITE |-> PyTrue, WRITE_IF_EQUAL |-> PyFalse,
      CSV_FILE |-> PyNone, CSV_LABEL |-> PyNone ]

---------------------------------------------------------------------------
(* get_cluster_from_params.                                                *)

\* the cluster object dev.endpoints[ep].in_clusters[cid] / .out_clusters[cid]
Cluster(side, ep, cid) == Val("cluster", FALSE, <<side>>, <<ep, cid>>, <<>>)

\* the attributes a device object has (zigpy Device: endpoints, ieee, ...);
\* reading any other attribute raises AttributeError
DeviceAttributes == {"endpoints", "ieee"}
HasAttr(name) == name \in DeviceAttributes

\* the warning text built from msg (line 298), naming cluster and endpoint
OutClusterWarning(cluster_id, ep_id) ==
    [text |-> "Using OutCluster", cluster_id |-> cluster_id, ep_id |-> ep_id]

\* what a call leaves behind: the (mutated) params and event_data, and the
\* value returned or the exception raised
Outcome(p, ev, r) == [params |-> p, event_data |-> ev, ret |-> r]

\* get_cluster_from_params storing find_endpoint's answer over any endpoint id
get_cluster_from_params_AlwaysResolves(eps, p, ev) ==
    LET p1 == [p EXCEPT !.EP_ID = find_endpoint(eps, p.CLUSTER_ID)]
    IN  IF ~InKeys(p1.EP_ID, DOMAIN eps)
        THEN Outcome(p1, ev, Raise("Exception", <<p1.EP_ID>>))
        ELSE IF ~IsInstanceInt(p1.CLUSTER_ID)
        THEN Outcome(p1, ev, Raise("Exception", <<p1.CLUSTER_ID>>))
        ELSE LET ep == KeyOf(p1.EP_ID, DOMAIN eps)
             IN  IF ~InKeys(p1.CLUSTER_ID, eps[ep].in_clusters)
                 THEN Outcome(p1, ev, Raise("AttributeError", <<>>))
                 ELSE Outcome(p1, ev, Cluster("in", ep, KeyOf(p1.CLUSTER_ID, eps[ep].in_clusters)))

\* Get in or outcluster (and endpoint) with best correspondence to values
\* provided in params
get_cluster_from_params(eps, p, ev) ==
    LET \* Get best endpoint
        p1 == IF p.EP_ID = PyNone \/ PyEq(p.EP_ID, PyStr(<<>>))
              THEN [p EXCEPT !.EP_ID = find_endpoint(eps, p.CLUSTER_ID)]
              ELSE p
        cluster_id == p1.CLUSTER_ID
    IN  IF ~InKeys(p1.EP_ID, DOMAIN eps)
        THEN Outcome(p1, ev, Raise("Exception", <<p1.EP_ID>>))
        ELSE IF ~IsInstanceInt(cluster_id)
        THEN Outcome(p1, ev, Raise("Exception", <<cluster_id>>))
        ELSE LET ep == KeyOf(p1.EP_ID, DOMAIN eps)
             IN  IF ~InKeys(cluster_id, eps[ep].in_clusters)
                 THEN \* msg is built (line 294), then line 297 reads dev.enddev
                      IF ~HasAttr("enddev")
                      THEN Outcome(p1, ev, Raise("AttributeError", <<>>))
                      ELSE IF InKeys(cluster_id, eps[ep].out_clusters)
                      THEN LET w  == OutClusterWarning(cluster_id, p1.EP_ID)
                               ws == IF ev.has_warnings THEN ev.warnings ELSE <<>>
                           IN  Outcome(p1,
                                       [has_warnings |-> TRUE, warnings |-> Append(ws, w)],
                                       Cluster("out", ep, KeyOf(cluster_id, eps[ep].out_clusters)))
                      ELSE Outcome(p1, ev, Raise("Exception", <<cluster_id, p1.EP_ID>>))
                 ELSE Outcome(p1, ev, Cluster("in", ep, KeyOf(cluster_id, eps[ep].in_clusters)))

\* endpoint ids a caller may pass: absent, empty, on or off the device, a name
EpArgs(n) == {PyNone, PyStr(<<>>), PyStr(<<"n", "a", "m", "e">>)} \cup {PyInt(k) : k \in 0..(n + 1)}

\* event_data on entry: no "warnings" key, an empty list, one earlier warning
EventArgs ==
    { [has_warnings |-> FALSE, warnings |-> <<>>],
      [has_warnings |-> TRUE, warnings |-> <<>>],
      [has_warnings |-> TRUE, warnings |-> <<OutClusterWarning(PyInt(6), PyInt(1))>>] }

InitResolve ==
    /\ op = "none"
    /\ endpoints \in Tables(MaxResolveEp)
    /\ \E ep \in EpArgs(MaxResolveEp), cid \in ClusterArgs \cup {PyNone} :
           params = [DefaultParams EXCEPT !.EP_ID = ep, !.CLUSTER_ID = cid]
    /\ event_data \in EventArgs
    /\ arg = [endpoints |-> endpoints, params |-> params, event_data |-> event_data]
    /\ ret = PyNone

GetClusterFromParamsCall ==
    /\ op = "none"
    /\ op' = "get_cluster_from_params"
    /\ LET out == get_cluster_from_params(endpoints, params, event_data)
       IN  /\ params' = out.params
           /\ event_data' = out.event_data
           /\ ret' = out.ret
    /\ UNCHANGED <<arg, endpoints>>

NextResolve == GetClusterFromParamsCall

SpecResolve == InitResolve /\ [][NextResolve]_vars

\* the warnings event_data holds; none when it has no "warnings" key
WarningsOf(ev) == IF ev.has_warnings THEN ev.warnings ELSE <<>>

\* the endpoint the call works on: the one supplied, found in the table
SuppliedEndpoint(k) == arg.params.EP_ID = PyInt(k) /\ k \in DOMAIN arg.endpoints

\* C3 (as claimed): for an endpoint of the device and an integer cluster id
\* that is missing from the endpoint's input clusters and present in its
\* output clusters, the call returns the output cluster without raising and
\* event_data["warnings"] (created if missing) is one entry longer; for a
\* cluster in the input clusters the input cluster is returned and no warning
\* is appended.
C3_OutputClusterFallback ==
    op = "get_cluster_from_params" =>
        \A k \in DOMAIN arg.endpoints, c \in DevClusters :
            (SuppliedEndpoint(k) /\ arg.params.CLUSTER_ID = PyInt(c)) =>
                /\ (c \notin arg.endpoints[k].in_clusters /\ c \in arg.endpoints[k].out_clusters) =>
                       /\ ret = Cluster("out", k, c)
                       /\ event_data.has_warnings
                       /\ Len(event_data.warnings) = Len(WarningsOf(arg.event_data)) + 1
                /\ c \in arg.endpoints[k].in_clusters =>
                       /\ ret = Cluster("in", k, c)
                       /\ event_data = arg.event_data

\* the failure cases of C4, on the endpoint id the call ends up with
EndpointMissing == ~InKeys(params.EP_ID, DOMAIN arg.endpoints)
ClusterNotInteger == ~IsInstanceInt(arg.params.CLUSTER_ID)
ClusterOnNeitherSide ==
    /\ ~EndpointMissing /\ ~ClusterNotInteger
    /\ LET e == arg.endpoints[KeyOf(params.EP_ID, DOMAIN arg.endpoints)]
       IN  ~InKeys(arg.params.CLUSTER_ID, e.in_clusters \cup e.out_clusters)

Names(exc, value) == \E i \in 1..Len(exc.xs) : exc.xs[i] = value

\* C4 (as claimed): the call fails, returning no cluster and appending no
\* warning, when (a) the supplied or resolved endpoint id is no key of the
\* device's endpoints, (b) the cluster id is not an integer, (c) the cluster id
\* is in neither cluster set of the endpoint; and the error's message names
\* the offending endpoint id or cluster id.
C4_FailureCases ==
    op = "get_cluster_from_params" =>
        /\ (EndpointMissing \/ ClusterNotInteger \/ ClusterOnNeitherSide) =>
               /\ IsRaise(ret)
               /\ event_data = arg.event_data
               /\ Names(ret, params.EP_ID) \/ Names(ret, arg.params.CLUSTER_ID)
        /\ EndpointMissing => Names(ret, params.EP_ID)
        /\ (~EndpointMissing /\ ClusterNotInteger) => Names(ret, arg.params.CLUSTER_ID)

\* C8: the call changes no field of params but the endpoint id, and that one
\* only when it was None or "" on entry, to what find_endpoint returns; a
\* supplied endpoint id stays, and the device's endpoint table stays as it was.
C8_ParamsFrame ==
    op = "get_cluster_from_params" =>
        /\ \A f \in DOMAIN params \ {"EP_ID"} : params[f] = arg.params[f]
        /\ arg.params.EP_ID \notin {PyNone, PyStr(<<>>)} => params.EP_ID = arg.params.EP_ID
        /\ arg.params.EP_ID \in {PyNone, PyStr(<<>>)} =>
               params.EP_ID = find_endpoint(arg.endpoints, arg.params.CLUSTER_ID)
        /\ endpoints = arg.endpoints

\* C8 witness: the endpoint id was absent on entry and the call filled in
\* endpoint 1, on a device that also has endpoint 0.
C8_Witness ==
    /\ op = "get_cluster_from_params"
    /\ arg.params.EP_ID = PyNone /\ params.EP_ID = PyInt(1)
    /\ 0 \in DOMAIN endpoints

---------------------------------------------------------------------------
(* attr_encode.  The typed containers are zigpy's: t.uintN_t / t.intNs     *)
(* convert with int() and raise ValueError outside their range, t.LVBytes  *)
(* converts with bytes(), f.DATA_TYPES is a dict keyed by datatype code.   *)

RECURSIVE MagLess(_, _)
\* a < b on normalized little-endian magnitudes
MagLess(a, b) ==
    IF Len(a) # Len(b) THEN Len(a) < Len(b)
    ELSE IF a = <<>> THEN FALSE
    ELSE IF a[Len(a)] # b[Len(b)] THEN a[Len(a)] < b[Len(b)]
    ELSE MagLess(SubSeq(a, 1, Len(a) - 1), SubSeq(b, 1, Len(b) - 1))

\* x <= y on ints
IntLe(x, y) ==
    IF x.b /\ ~y.b THEN TRUE
    ELSE IF ~x.b /\ y.b THEN FALSE
    ELSE IF x.b THEN ~MagLess(x.n, y.n)
    ELSE ~MagLess(y.n, x.n)

\* 2^k and 2^k - 1 for k >= 0
Pow2(k) == BigInt(FALSE, [i \in 1..(k \div 4 + 1) |->
                              IF i <= k \div 4 THEN 0
                              ELSE IF k % 4 = 0 THEN 1 ELSE IF k % 4 = 1 THEN 2
                              ELSE IF k % 4 = 2 THEN 4 ELSE 8])
Pow2Minus1(k) == BigInt(FALSE, Normalize([i \in 1..(k \div 4 + 1) |->
                              IF i <= k \div 4 THEN 15
                              ELSE IF k % 4 = 0 THEN 0 ELSE IF k % 4 = 1 THEN 1
                              ELSE IF k % 4 = 2 THEN 3 ELSE 7]))
Negated(x) == IF x.n = <<>> THEN x ELSE BigInt(~x.b, x.n)

\* int(x): the conversion the integer containers apply to their argument
int_of(x) ==
    IF IsType(x, "int") THEN x
    ELSE IF IsType(x, "bool") THEN AsInt(x)
    ELSE IF IsType(x, "str") THEN int_str(x.s, 10)
    ELSE Raise("TypeError", <<>>)

\* the container's range: min_value <= n <= max_value
MinValue(bits, signed) == IF signed THEN Negated(Pow2(bits - 1)) ELSE PyInt(0)
MaxValue(bits, signed) == IF signed THEN Pow2Minus1(bits - 1) ELSE Pow2Minus1(bits)

\* t.uint<bits>_t(x) / t.int<bits>s(x)
int_t(bits, signed, x) ==
    LET n == int_of(x)
    IN  IF IsRaise(n) THEN n
        ELSE IF IntLe(MinValue(bits, signed), n) /\ IntLe(n, MaxValue(bits, signed)) THEN n
        ELSE Raise("ValueError", <<>>)

\* t.Bool(x): the members are false = 0 and true = 1
Bool_t(x) ==
    LET n == int_of(x)
    IN  IF IsRaise(n) THEN n
        ELSE IF n = PyInt(0) THEN PyFalse
        ELSE IF n = PyInt(1) THEN PyTrue
        ELSE Raise("ValueError", <<>>)

\* n zero bytes, kept as the count
ZeroBytes(n) == Val("bytes", FALSE, <<"zeros">>, n.n, <<>>)

RECURSIVE ByteList(_)
\* the bytes of a list of ints, or the exception bytes() raises on an item
ByteList(xs) ==
    IF xs = <<>> THEN PyBytes(<<>>)
    ELSE IF ~IsInstanceInt(xs[1]) THEN Raise("TypeError", <<>>)
    ELSE LET x == AsInt(xs[1])
         IN  IF x.b \/ Len(x.n) > 2 THEN Raise("ValueError", <<>>)
             ELSE LET rest == ByteList(Tail(xs))
                  IN  IF IsRaise(rest) THEN rest
                      ELSE PyBytes(<<(IF Len(x.n) = 0 THEN 0
                                      ELSE IF Len(x.n) = 1 THEN x.n[1]
                                      ELSE x.n[1] + 16 * x.n[2])>> \o rest.n)

\* t.LVBytes(x) = bytes(x): a str has no encoding, an int n gives n zero bytes
LVBytes(x) ==
    IF IsType(x, "bytes") THEN x
    ELSE IF IsType(x, "str") THEN Raise("TypeError", <<>>)
    ELSE IF IsInstanceInt(x)
         THEN IF AsInt(x).b THEN Raise("ValueError", <<>>)
              ELSE IF ~IntLe(AsInt(x), Pow2Minus1(63)) THEN Raise("OverflowError", <<>>)
              ELSE ZeroBytes(AsInt(x))
    ELSE IF IsType(x, "list") THEN ByteList(x.xs)
    ELSE Raise("TypeError", <<>>)

\* f.TypeValue(attr_type, value)
TypeValue(attr_type, value) == Val("TypeValue", FALSE, <<>>, <<>>, <<attr_type, value>>)

\* the (attr_obj, msg, compare_val) tuple attr_encode returns
Tuple3(a, b, c) == Val("tuple", FALSE, <<>>, <<>>, <<a, b, c>>)

\* the error text of lines 467-470, naming attr_type and attr_val_in
NotSupportedMsg(attr_type, attr_val_in) ==
    Val("str", FALSE, <<"attr_type not supported, or incorrect parameters">>, <<>>,
        <<attr_type, attr_val_in>>)

\* datatype codes of f.DATA_TYPES that attr_encode does not special-case and
\* the model covers (bitmap8, bitmap16, enum8, enum16), with their widths
DATA_TYPES == (24 :> 8) @@ (25 :> 16) @@ (48 :> 8) @@ (49 :> 16)

\* the integer branches of attr_encode: code -> container
IntBranch ==
    (32 :> [bits |-> 8, signed |-> FALSE]) @@ (33 :> [bits |-> 16, signed |-> FALSE]) @@
    (34 :> [bits |-> 24, signed |-> FALSE]) @@ (35 :> [bits |-> 32, signed |-> FALSE]) @@
    (36 :> [bits |-> 32, signed |-> FALSE]) @@ (37 :> [bits |-> 48, signed |-> FALSE]) @@
    (38 :> [bits |-> 56, signed |-> FALSE]) @@ (39 :> [bits |-> 64, signed |-> FALSE]) @@
    (40 :> [bits |-> 8, signed |-> TRUE]) @@ (41 :> [bits |-> 16, signed |-> TRUE]) @@
    (42 :> [bits |-> 24, signed |-> TRUE]) @@ (43 :> [bits |-> 32, signed |-> TRUE]) @@
    (44 :> [bits |-> 32, signed |-> TRUE]) @@ (45 :> [bits |-> 48, signed |-> TRUE]) @@
    (46 :> [bits |-> 56, signed |-> TRUE]) @@ (47 :> [bits |-> 64, signed |-> TRUE])

\* the integer branches with 0x24 and 0x2C at the 40 bits ZCL gives them
IntContainer_Zcl40(code) ==
    IF code = 36 THEN [bits |-> 40, signed |-> FALSE]
    ELSE IF code = 44 THEN [bits |-> 40, signed |-> TRUE]
    ELSE IntBranch[code]

\* the container lines 386-433 pick for an integer code
IntContainer(code) == IntBranch[code]

\* attr_type == code, for a code of the source
IsCode(attr_type, code) == IsInstanceInt(attr_type) /\ PyEq(attr_type, PyInt(code))

\* Convert attribute value (provided as a string) to appropriate attribute
\* value.
attr_encode(attr_val_in, attr_type) ==
    LET compare_val == str2int(attr_val_in)
        \* the tail of the function, lines 466-475, for a built attr_obj
        Return(attr_obj, cmp) ==
            IF IsRaise(attr_obj) THEN attr_obj
            ELSE Tuple3(attr_obj,
                        IF attr_obj = PyNone
                        THEN NotSupportedMsg(attr_type, attr_val_in) ELSE PyNone,
                        cmp)
        \* f.TypeValue(attr_type, value) for a value that may have raised
        Typed(value) == IF IsRaise(value) THEN value ELSE TypeValue(attr_type, value)
    IN  IF IsCode(attr_type, 16)
        THEN IF IsRaise(compare_val) THEN compare_val
             ELSE Return(Typed(Bool_t(compare_val)), compare_val)
        ELSE IF \E code \in DOMAIN IntBranch : IsCode(attr_type, code)
        THEN LET c == IntContainer(KeyOf(attr_type, DOMAIN IntBranch))
             IN  IF IsRaise(compare_val) THEN compare_val
                 ELSE Return(Typed(int_t(c.bits, c.signed, compare_val)), compare_val)
        ELSE IF IsCode(attr_type, 65) \/ IsCode(attr_type, 66)
        THEN \* LVBytes(str) raises before line 439 can encode the str; a list
             \* becomes t.List[t.uint8_t] of the same items (lines 441-445)
             LET cmp == LVBytes(attr_val_in)
             IN  IF IsRaise(cmp) THEN cmp
                 ELSE Return(Typed(LVBytes(attr_val_in)), cmp)
        ELSE IF IsCode(attr_type, 255) \/ attr_type = PyNone
        THEN IF IsRaise(compare_val) THEN compare_val
             ELSE Return(Typed(LVBytes(compare_val)), compare_val)
        ELSE \* Try to apply conversion using foundation DATA_TYPES table
             IF ~InKeys(attr_type, DOMAIN DATA_TYPES)
             THEN Raise("KeyError", <<attr_type>>)
             ELSE LET bits == DATA_TYPES[KeyOf(attr_type, DOMAIN DATA_TYPES)]
                      cmp  == IF IsRaise(compare_val) THEN compare_val
                              ELSE int_t(bits, FALSE, compare_val)
                  IN  IF IsRaise(cmp) THEN cmp
                      ELSE Return(Typed(int_t(bits, FALSE, cmp)), cmp)

\* the widths of the integer containers
Widths == {8, 16, 24, 32, 48, 56, 64}

\* integers at the edges of every width, unsigned and signed
EdgeInts ==
    UNION {{Pow2Minus1(w), Pow2(w), Pow2Minus1(w - 1), Pow2(w - 1),
            Negated(Pow2(w - 1)), Negated(BigInt(FALSE, MulAdd(Pow2(w - 1).n, 1, 1)))} : w \in Widths}

EncodeValues ==
    EdgeInts
    \cup {PyInt(0), PyInt(1), PyInt(-1), PyInt(2), PyTrue, PyFalse, PyNone,
          PyList(<<PyInt(1), PyInt(255)>>), PyList(<<PyInt(256)>>)}
    \cup {PyStr(x) : x \in
            { <<>>, <<"0">>, <<"1">>, <<"2", "5", "5">>, <<"2", "5", "6">>,
              <<"0", "x", "F", "F">>, <<"0", "x", "1", "0", "0">>, <<"0", "8">>,
              <<"-", "5">>, <<"-", "1", "2", "9">>, <<"n", "a", "m", "e">>,
              <<"t", "r", "u", "e">>,
              <<"9", "9", "9", "9", "9", "9", "9", "9", "9", "9", "9", "9">>,
              <<"0", "x", "F", "F", "F", "F", "F", "F", "F", "F">>,
              <<"0", "x", "1", "0", "0", "0", "0", "0", "0", "0", "0">>,
              <<"4", "2", "9", "4", "9", "6", "7", "2", "9", "5">>,
              <<"4", "2", "9", "4", "9", "6", "7", "2", "9", "6">> }}

\* a code outside f.DATA_TYPES (0x7E) and the codes of f.DATA_TYPES covered
EncodeTypes ==
    {PyNone, PyInt(16), PyInt(65), PyInt(66), PyInt(255), PyInt(126)}
    \cup {PyInt(c) : c \in DOMAIN IntBranch \cup DOMAIN DATA_TYPES}

InitEncode ==
    /\ op = "none"
    /\ arg \in [attr_val_in : EncodeValues, attr_type : EncodeTypes]
    /\ ret = PyNone
    /\ endpoints = NoDevice
    /\ params = NoParams
    /\ event_data = NoEvents

AttrEncodeCall ==
    /\ op = "none"
    /\ op' = "attr_encode"
    /\ ret' = attr_encode(arg.attr_val_in, arg.attr_type)
    /\ UNCHANGED <<arg, endpoints, params, event_data>>

NextEncode == AttrEncodeCall

SpecEncode == InitEncode /\ [][NextEncode]_vars

\* the parts of a returned (attr_obj, msg, compare_val)
Returned == ret.t = "tuple"
AttrObj == ret.xs[1]
Msg == ret.xs[2]
CompareVal == ret.xs[3]

\* C5 (as claimed): for a datatype code that is neither special-cased nor in
\* the type registry, attr_encode returns, for every raw value, the three-part
\* result: no TypedValue, an error message naming the code and the raw value,
\* and the scalar parsed from the raw value.
C5_UnmappedCodeReported ==
    (op = "attr_encode" /\ arg.attr_type = PyInt(126)) =>
        /\ Returned
        /\ AttrObj = PyNone
        /\ Msg.t = "str" /\ Msg.s # <<>>
        /\ Names(Msg, arg.attr_type) /\ Names(Msg, arg.attr_val_in)
        /\ ~IsRaise(str2int(arg.attr_val_in)) => CompareVal = str2int(arg.attr_val_in)

\* the range the claim declares for each integer code, as the number of
\* hexadecimal digits a value may have and the largest leading digit
DeclaredBits(code) ==
    CASE code \in {32, 40} -> 8 [] code \in {33, 41} -> 16 [] code \in {34, 42} -> 24
      [] code \in {35, 36, 43, 44} -> 32 [] code \in {37, 45} -> 48
      [] code \in {38, 46} -> 56 [] code \in {39, 47} -> 64
DeclaredSigned(code) == code >= 40

InDeclaredRange(x, code) ==
    LET digits == DeclaredBits(code) \div 4
        top    == IF Len(x.n) = digits THEN x.n[digits] ELSE 0
        lowest == Len(x.n) = digits /\ top = 8 /\ \A i \in 1..(digits - 1) : x.n[i] = 0
    IN  /\ x.t = "int"
        /\ Len(x.n) <= digits
        /\ ~DeclaredSigned(code) => ~x.b
        /\ DeclaredSigned(code) => (top <= 7 \/ (x.b /\ lowest))

\* C6: for every integer code (0x20-0x2F) a raw value whose parsed integer is
\* outside the range of the code's width and signedness yields no TypedValue,
\* and a TypedValue that is yielded holds an integer inside that range (0x24
\* the unsigned, 0x2B and 0x2C the signed 32-bit range).
C6_IntegerRangeChecked ==
    op = "attr_encode" =>
        \A code \in 32..47 :
            arg.attr_type = PyInt(code) =>
                LET parsed == str2int(arg.attr_val_in)
                IN  /\ (parsed.t = "int" /\ ~InDeclaredRange(parsed, code)) =>
                           (IsRaise(ret) \/ AttrObj = PyNone)
                    /\ (Returned /\ AttrObj # PyNone) =>
                           /\ AttrObj.t = "TypeValue"
                           /\ AttrObj.xs[1] = PyInt(code)
                           /\ InDeclaredRange(AttrObj.xs[2], code)

\* C6 witness: 2^32 was refused for code 0x24.
C6_Witness ==
    /\ op = "attr_encode" /\ arg.attr_type = PyInt(36)
    /\ arg.attr_val_in = Pow2(32)
    /\ IsRaise(ret)

---------------------------------------------------------------------------
(* extractParams.  The raw mapping service.data is a function from the raw *)
(* field names present to their values; the names are the attribute names  *)
(* of USER_PARAMS (P) and INTERNAL_PARAMS (p).                             *)

\* The assignments of lines 522-631 in source order: the raw field read, the
\* canonical field written and the conversion applied.  "manf_sentinel" is
\* the unconditional step of lines 558-560.
Step(rawname, key, conv) == [raw |-> rawname, key |-> key, conv |-> conv]

ManfStep == Step("MANF", "MANF", "str2int")

StepsBeforeManf ==
    << Step("ENDPOINT", "EP_ID", "str2int"),
       Step("CLUSTER", "CLUSTER_ID", "str2int"),
       Step("ATTRIBUTE", "ATTR_ID", "str2int"),
       Step("ATTR_TYPE", "ATTR_TYPE", "str2int"),
       Step("ATTR_VAL", "ATTR_VAL", "str2int"),
       Step("CODE", "CODE", "str2int"),
       Step("CMD", "CMD_ID", "str2int"),
       Step("DIR", "DIR", "str2int") >>

StepsAfterManf ==
    << Step("", "MANF", "manf_sentinel"),
       Step("TRIES", "TRIES", "str2int"),
       Step("EXPECT_REPLY", "EXPECT_REPLY", "str2int_eq_0"),
       Step("FAIL_EXCEPTION", "FAIL_EXCEPTION", "str2int_eq_0"),
       Step("ARGS", "ARGS", "args"),
       Step("MIN_INTRVL", "MIN_INTERVAL", "str2int"),
       Step("MAX_INTRVL", "MAX_INTERVAL", "str2int"),
       Step("REPTBLE_CHG", "REPORTABLE_CHANGE", "str2int"),
       Step("STATE_ID", "STATE_ID", "pass"),
       Step("STATE_ATTR", "STATE_ATTR", "pass"),
       Step("READ_BEFORE_WRITE", "READ_BEFORE_WRITE", "str2bool"),
       Step("READ_AFTER_WRITE", "READ_AFTER_WRITE", "str2bool"),
       Step("WRITE_IF_EQUAL", "WRITE_IF_EQUAL", "str2bool"),
       Step("STATE_ATTR", "STATE_ATTR", "pass"),
       Step("ALLOW_CREATE", "ALLOW_CREATE", "allow"),
       Step("EVENT_DONE", "EVT_DONE", "pass"),
       Step("EVENT_FAIL", "EVT_FAIL", "pass"),
       Step("EVENT_SUCCESS", "EVT_SUCCESS", "pass"),
       Step("OUTCSV", "CSV_FILE", "pass"),
       Step("CSVLABEL", "CSV_LABEL", "pass") >>

Steps == StepsBeforeManf \o <<ManfStep>> \o StepsAfterManf

RawFields == {Steps[i].raw : i \in 1..Len(Steps)} \ {""}

RECURSIVE Uint8List(_)
\* t.List[t.uint8_t]([t.uint8_t(i) for i in lval]): the list of the items, or
\* the first exception a conversion raises
Uint8List(xs) ==
    IF xs = <<>> THEN PyList(<<>>)
    ELSE LET x == int_t(8, FALSE, xs[1])
         IN  IF IsRaise(x) THEN x
             ELSE LET rest == Uint8List(Tail(xs))
                  IN  IF IsRaise(rest) THEN rest ELSE PyList(<<x>> \o rest.xs)

RECURSIVE CmdArgs(_)
\* the loop of lines 575-584 over the items of rawParams[P.ARGS]: cmd_args
CmdArgs(vals) ==
    IF vals = <<>> THEN PyList(<<>>)
    ELSE LET lval0 == str2int(vals[1])
             lval  == IF IsType(lval0, "list") THEN Uint8List(lval0.xs) ELSE lval0
         IN  IF IsRaise(lval) THEN lval
             ELSE LET rest == CmdArgs(Tail(vals))
                  IN  IF IsRaise(rest) THEN rest ELSE PyList(<<lval>> \o rest.xs)

\* the items "for val in x" visits: a list's items, a str's characters
Iterate(x) ==
    IF IsType(x, "list") THEN x
    ELSE IF IsType(x, "str") THEN PyList([i \in 1..Len(x.s) |-> PyStr(<<x.s[i]>>)])
    ELSE Raise("TypeError", <<>>)

\* the value a step stores, or the exception its conversion raises
Convert(conv, v) ==
    CASE conv = "str2int" -> str2int(v)
      [] conv = "str2bool" -> str2bool(v)
      [] conv = "pass" -> v
      [] conv = "str2int_eq_0" ->
            LET n == str2int(v)
            IN  IF IsRaise(n) THEN n ELSE PyBool(PyEq(n, PyInt(0)))
      [] conv = "allow" ->
            LET allow == str2int(v)
            IN  IF IsRaise(allow) THEN allow
                ELSE PyBool(allow # PyNone /\ (allow = PyTrue \/ PyEq(allow, PyInt(1))))
      [] conv = "args" ->
            LET items == Iterate(v)
            IN  IF IsRaise(items) THEN items ELSE CmdArgs(items.xs)

\* b"", the forced-empty manufacturer code
EmptyBytes == PyBytes(<<>>)

\* the dict extractParams returns
ParamsDict(ps) == Val("dict", FALSE, <<>>, <<>>, <<ps>>)

RECURSIVE ApplySteps(_, _, _)
\* the params the steps leave, or the exception that ended them
ApplySteps(steps, rawParams, ps) ==
    IF steps = <<>> THEN ParamsDict(ps)
    ELSE LET st == steps[1]
         IN  IF st.conv = "manf_sentinel"
             THEN LET manf == ps.MANF
                  IN  ApplySteps(Tail(steps), rawParams,
                                 IF PyEq(manf, PyStr(<<>>)) \/ PyEq(manf, PyInt(0))
                                 THEN [ps EXCEPT !.MANF = EmptyBytes] ELSE ps)
             ELSE IF st.raw \in DOMAIN rawParams
             THEN LET v == Convert(st.conv, rawParams[st.raw])
                  IN  IF IsRaise(v) THEN v
                      ELSE ApplySteps(Tail(steps), rawParams, [ps EXCEPT ![st.key] = v])
             ELSE ApplySteps(Tail(steps), rawParams, ps)

\* extractParams storing the raw manufacturer field without parsing it
extractParams_ManfUnparsed(rawParams) ==
    ApplySteps(StepsBeforeManf \o <<Step("MANF", "MANF", "pass")>> \o StepsAfterManf,
               rawParams, DefaultParams)

\* Common method to extract and convert parameters.
extractParams(rawParams) == ApplySteps(Steps, rawParams, DefaultParams)

\* raw values a service call can carry
RawValues ==
    {PyStr(x) : x \in { <<>>, <<"0">>, <<"0", "x", "0">>, <<"0", "x", "1", "0", "0", "1">>,
                        <<"0", "8">>, <<"t", "r", "u", "e">>, <<"f", "a", "l", "s", "e">>,
                        <<"n", "a", "m", "e">>, <<"1", "2">> }}
    \cup {PyInt(0), PyInt(1), PyInt(4097), PyTrue, PyFalse, PyNone,
          PyList(<<>>),
          PyList(<<PyStr(<<"0", "x", "1", "0">>), PyInt(3), PyList(<<PyInt(1), PyInt(2)>>)>>),
          PyList(<<PyList(<<PyInt(256)>>)>>)}

RECURSIVE FieldSets(_)
\* the sets of at most n raw field names
FieldSets(n) ==
    IF n = 0 THEN {{}}
    ELSE LET fewer == FieldSets(n - 1)
         IN  fewer \cup {F \cup {f} : F \in fewer, f \in RawFields}

\* the raw mappings with at most n fields
RawMappings(n) == UNION {[fields -> RawValues] : fields \in FieldSets(n)}

InitParams ==
    /\ op = "none"
    /\ arg \in [rawParams : RawMappings(MaxRawFields)]
    /\ ret = PyNone
    /\ endpoints = NoDevice
    /\ params = NoParams
    /\ event_data = NoEvents

ExtractParamsCall ==
    /\ op = "none"
    /\ op' = "extractParams"
    /\ ret' = extractParams(arg.rawParams)
    /\ UNCHANGED <<arg, endpoints, params, event_data>>

NextParams == ExtractParamsCall

SpecParams == InitParams /\ [][NextParams]_vars

\* the canonical fields and the raw field each is read from
CanonicalFields ==
    {"CMD_ID", "EP_ID", "CLUSTER_ID", "ATTR_ID", "ATTR_TYPE", "ATTR_VAL", "CODE",
     "MIN_INTERVAL", "MAX_INTERVAL", "REPORTABLE_CHANGE", "DIR", "MANF", "TRIES",
     "EXPECT_REPLY", "ARGS", "STATE_ID", "STATE_ATTR", "ALLOW_CREATE", "EVT_SUCCESS",
     "EVT_FAIL", "EVT_DONE", "FAIL_EXCEPTION", "READ_BEFORE_WRITE", "READ_AFTER_WRITE",
     "WRITE_IF_EQUAL", "CSV_FILE", "CSV_LABEL"}

RawNameOf(key) ==
    CASE key = "CMD_ID" -> "CMD" [] key = "EP_ID" -> "ENDPOINT"
      [] key = "CLUSTER_ID" -> "CLUSTER" [] key = "ATTR_ID" -> "ATTRIBUTE"
      [] key = "MIN_INTERVAL" -> "MIN_INTRVL" [] key = "MAX_INTERVAL" -> "MAX_INTRVL"
      [] key = "REPORTABLE_CHANGE" -> "REPTBLE_CHG" [] key = "EVT_SUCCESS" -> "EVENT_SUCCESS"
      [] key = "EVT_FAIL" -> "EVENT_FAIL" [] key = "EVT_DONE" -> "EVENT_DONE"
      [] key = "CSV_FILE" -> "OUTCSV" [] key = "CSV_LABEL" -> "CSVLABEL"
      [] OTHER -> key

\* the documented default of a canonical field, with the fail-exception flag
\* at the given value
DocumentedDefault(key, fail_exception) ==
    CASE key = "DIR" -> PyInt(0)
      [] key = "TRIES" -> PyInt(1)
      [] key \in {"EXPECT_REPLY", "READ_BEFORE_WRITE", "READ_AFTER_WRITE"} -> PyBool(TRUE)
      [] key \in {"ALLOW_CREATE", "WRITE_IF_EQUAL"} -> PyBool(FALSE)
      [] key = "ARGS" -> PyList(<<>>)
      [] key = "FAIL_EXCEPTION" -> fail_exception
      [] OTHER -> PyNone

\* the dict returned by the call
ResultParams == ret.xs[1]
ReturnedParams == op = "extractParams" /\ ret.t = "dict"

DefaultsKept(fail_exception) ==
    /\ (op = "extractParams" /\ DOMAIN arg.rawParams = {}) =>
           /\ ReturnedParams
           /\ DOMAIN ResultParams = CanonicalFields
           /\ \A key \in CanonicalFields :
                  ResultParams[key] = DocumentedDefault(key, fail_exception)
    /\ ReturnedParams =>
           \A key \in CanonicalFields :
               RawNameOf(key) \notin DOMAIN arg.rawParams =>
                   ResultParams[key] = DocumentedDefault(key, fail_exception)

\* C9 (as claimed): extractParams on an empty raw mapping returns exactly the
\* default table (direction 0, tries 1, expect_reply true, args empty,
\* allow-create false, read-before-write and read-after-write true,
\* write-if-equal false, every other field None), and on any raw mapping every
\* canonical field whose raw field is not present keeps that default.
C9_DefaultsAsClaimed == DefaultsKept(PyNone)

\* C9 (amended): the same, with the fail-exception flag defaulting to False
\* instead of None.
C9_DefaultsKept == DefaultsKept(PyBool(FALSE))

\* C9 witness: a call with only the tries field present has returned, tries
\* converted and every other field at its default.
C9_Witness ==
    /\ ReturnedParams
    /\ DOMAIN arg.rawParams = {"TRIES"}
    /\ arg.rawParams["TRIES"] = PyStr(<<"1", "2">>)
    /\ ResultParams.TRIES = PyInt(12)
    /\ ResultParams.FAIL_EXCEPTION = PyBool(FALSE)

\* C10: the manufacturer code of the result is b"" exactly when the raw
\* manufacturer field is present and parses to "" or to the integer 0 (0 or
\* False, Python's 0 == False); with the raw field absent it stays None, and a
\* non-zero parsed integer is stored as that integer.
C10_ManufacturerSentinel ==
    ReturnedParams =>
        LET present == "MANF" \in DOMAIN arg.rawParams
            parsed  == str2int(arg.rawParams["MANF"])
        IN  /\ ResultParams.MANF = PyBytes(<<>>) <=>
                   (present /\ parsed \in {PyStr(<<>>), PyInt(0), PyBool(FALSE)})
            /\ ~present => ResultParams.MANF = PyNone
            /\ (present /\ parsed.t = "int" /\ parsed # PyInt(0)) => ResultParams.MANF = parsed

\* C10 witness: the raw manufacturer "0x0" has become b"".
C10_Witness ==
    /\ ReturnedParams
    /\ "MANF" \in DOMAIN arg.rawParams
    /\ arg.rawParams["MANF"] = PyStr(<<"0", "x", "0">>)
    /\ ResultParams.MANF = PyBytes(<<>>)

\* the raw value parses to true, 1 or another non-zero integer
ParsesToTrue(v) ==
    LET parsed == str2int(v)
    IN  parsed = PyTrue \/ (IsType(parsed, "int") /\ ~PyEq(parsed, PyInt(0)))

\* the raw value parses to false or 0
ParsesToFalse(v) ==
    LET parsed == str2int(v)
    IN  parsed = PyFalse \/ parsed = PyInt(0)

\* the flag stored under key has the truth value of the raw field it is read from
FlagFollowsRaw(key) ==
    (ReturnedParams /\ RawNameOf(key) \in DOMAIN arg.rawParams) =>
        LET v == arg.rawParams[RawNameOf(key)]
        IN  /\ ParsesToTrue(v) => ResultParams[key] = PyBool(TRUE)
            /\ ParsesToFalse(v) => ResultParams[key] = PyBool(FALSE)

\* C11: when the raw expect_reply field, and likewise the raw fail_exception
\* field, is present, the flag extractParams stores has the truth value of the
\* raw input: a raw value that parses to true, 1 or non-zero gives True, one
\* that parses to false or 0 gives False, as the fields read_before_write,
\* read_after_write, write_if_equal and allow_create do.
C11_FlagsHaveRawTruthValue ==
    /\ FlagFollowsRaw("EXPECT_REPLY")
    /\ FlagFollowsRaw("FAIL_EXCEPTION")

---------------------------------------------------------------------------
(* The scalar parser on a bounded token set.                               *)

Alphabet == {"0", "1", "8", "x", "b", "A", "-"}

RECURSIVE TokensUpTo(_)
TokensUpTo(n) ==
    IF n = 0 THEN {<<>>}
    ELSE LET shorter == TokensUpTo(n - 1)
         IN  shorter \cup {Append(s, c) : s \in {x \in shorter : Len(x) = n - 1}, c \in Alphabet}

ExampleTokens ==
    { <<"t", "r", "u", "e">>, <<"T", "r", "u", "e">>, <<"T", "R", "U", "E">>,
      <<"f", "a", "l", "s", "e">>, <<"F", "A", "L", "S", "E">>,
      <<"0", "x", "1", "A">>, <<"0", "X", "1", "a">>, <<"0", "1", "0">>,
      <<"b", "1", "0", "1">>, <<"n", "a", "m", "e">>, <<"t", "r", "u">>,
      <<"0", "x", "F", "F", "F", "F">>, <<"6", "5", "5", "3", "5">>,
      <<"0", "7", "7", "7">>, <<"0", "x", "t", "r", "u", "e">> }

NonStrings == {PyNone, PyBool(FALSE), PyBool(TRUE), PyInt(0), PyInt(1), PyInt(26), PyInt(-1)}

ScalarInputs ==
    {PyStr(s) : s \in TokensUpTo(MaxTokLen) \cup ExampleTokens} \cup NonStrings

InitScalar ==
    /\ op = "none"
    /\ arg \in {[s |-> x] : x \in ScalarInputs}
    /\ ret = PyNone
    /\ endpoints = NoDevice
    /\ params = NoParams
    /\ event_data = NoEvents

Str2IntCall ==
    /\ op = "none"
    /\ op' = "str2int"
    /\ ret' = str2int(arg.s)
    /\ UNCHANGED <<arg, endpoints, params, event_data>>

Str2BoolCall ==
    /\ op = "none"
    /\ op' = "str2bool"
    /\ ret' = str2bool(arg.s)
    /\ UNCHANGED <<arg, endpoints, params, event_data>>

NextScalar == Str2IntCall \/ Str2BoolCall

SpecScalar == InitScalar /\ [][NextScalar]_vars

---------------------------------------------------------------------------
(* The documented rule table of the scalar parser, stated on the token's   *)
(* shape with ordinary integer arithmetic.                                 *)

RECURSIVE PosValue(_, _)
PosValue(s, base) ==
    IF s = <<>> THEN 0
    ELSE PosValue(SubSeq(s, 1, Len(s) - 1), base) * base + DigitVal(s[Len(s)])

AllIn(s, chars) == \A i \in 1..Len(s) : s[i] \in chars

IsTrueTok(s) == lower(s) = <<"t", "r", "u", "e">>
IsFalseTok(s) == lower(s) = <<"f", "a", "l", "s", "e">>
HasHexPrefix(s) == Len(s) >= 2 /\ s[1] = "0" /\ s[2] \in {"x", "X"}
IsHexTok(s) ==
    HasHexPrefix(s) /\ Len(s) >= 3
    /\ AllIn(SubSeq(s, 3, Len(s)), Digits \cup HexLower \cup HexUpper)
IsOctTok(s) == Len(s) >= 1 /\ s[1] = "0" /\ AllIn(s, {"0", "1", "2", "3", "4", "5", "6", "7"})
IsBinTok(s) == Len(s) >= 2 /\ s[1] = "b" /\ AllIn(Tail(s), {"0", "1"})
IsDecTok(s) == Len(s) >= 1 /\ s[1] # "0" /\ AllIn(s, Digits)
IsOtherTok(s) ==
    /\ ~IsTrueTok(s) /\ ~IsFalseTok(s) /\ ~HasHexPrefix(s)
    /\ ~(Len(s) >= 1 /\ AllIn(s, Digits))
    /\ ~(Len(s) >= 2 /\ s[1] = "b" /\ AllIn(Tail(s), Digits))

\* C7: str2int agrees with the documented rule table on every token of the
\* bounded set: a non-string is returned unchanged, true/false in any case
\* give 1/0, 0x/0X plus hex digits gives the base-16 value, a token starting
\* with 0 made of octal digits gives the base-8 value, b plus binary digits
\* gives the base-2 value of the remainder, decimal digits without a leading
\* zero give the base-10 value, and a string of no such prefix or shape is
\* returned as the identical string.
C7_Str2IntRuleTable ==
    op = "str2int" =>
        LET x == arg.s
        IN  /\ ~IsType(x, "str") => ret = x
            /\ IsType(x, "str") =>
                /\ IsTrueTok(x.s) => ret = PyInt(1)
                /\ IsFalseTok(x.s) => ret = PyInt(0)
                /\ IsHexTok(x.s) => ret = PyInt(PosValue(SubSeq(x.s, 3, Len(x.s)), 16))
                /\ IsOctTok(x.s) => ret = PyInt(PosValue(x.s, 8))
                /\ IsBinTok(x.s) => ret = PyInt(PosValue(Tail(x.s), 2))
                /\ IsDecTok(x.s) => ret = PyInt(PosValue(x.s, 10))
                /\ IsOtherTok(x.s) => ret = x

\* C7 witness: the octal example "010" has been parsed to 8.
C7_Witness ==
    op = "str2int" /\ arg.s = PyStr(<<"0", "1", "0">>) /\ ret = PyInt(8)

=============================================================================
